---- MODULE Spec2Model ----
(***************************************************************************)
(* Model of the SecurityDashboard component: the one-shot loader           *)
(* (fetchData), the date-range effect that filters the raw rows and runs   *)
(* processActivityData and processAttendanceData, and the DatePicker       *)
(* handler that changes the bounds.                                        *)
(*                                                                         *)
(* JavaScript values are represented as follows.  A Date is its time value *)
(* counted in hours from 2024-01-01 00:00 local time; an Invalid Date and  *)
(* every other NaN is the integer NaN; an undefined bound is Undefined; a  *)
(* null error is Null.                                                     *)
(***************************************************************************)
EXTENDS Integers, Sequences, FiniteSets, TLC

\* Longest raw activity / attendance dataset the loader delivers.
MaxActivity == 2
MaxAttendance == 2

NaN == 0 - 1000
Undefined == 0 - 2000
Null == "null"
\* selectedHour = null
NullHour == 0 - 3000

VARIABLES
    loading, error,
    metrics, guardStats, activityData, locationStats,
    startDate, endDate,
    activityDataRaw, attendanceDataRaw,
    pc,                    \* position of fetchData
    activityResults,       \* fetchData's local: parsed activity rows
    effectPending,         \* a dependency of the date-range effect changed
    crashed,               \* the effect threw: React unmounted the tree
    filteredActivityData,  \* the effect's locals on its last run
    filteredAttendanceData,
    activityPass,          \* outcome of the last processActivityData call
    attendancePass,        \* outcome of the last processAttendanceData call
    activeTab, selectedHour, selectedLocation

vars == <<loading, error, metrics, guardStats, activityData, locationStats,
          startDate, endDate, activityDataRaw, attendanceDataRaw, pc,
          activityResults, effectPending, crashed, filteredActivityData,
          filteredAttendanceData, activityPass, attendancePass,
          activeTab, selectedHour, selectedLocation>>

\* The tab and drill-down selection
ui == <<activeTab, selectedHour, selectedLocation>>

derived == <<metrics, guardStats, activityData, locationStats>>

----------------------------------------------------------------------------
(* JavaScript primitives *)

\* new Date(string): the time value, or NaN for an Invalid Date.
ParseDate(s) ==
    CASE s = "2024-01-01 23:00" -> 23
      [] s = "2024-01-02 00:00" -> 24
      [] s = "2024-01-02 14:00" -> 38
      [] OTHER -> NaN

\* Date.prototype.getHours
GetHours(date) == IF date = NaN THEN NaN ELSE date % 24

\* a < b and a > b on Dates/numbers: false as soon as one side is NaN
Lt(a, b) == a # NaN /\ b # NaN /\ a < b
Gt(a, b) == a # NaN /\ b # NaN /\ a > b

\* a + b and a / b * 100 rounded, on numbers
Plus(a, b) == IF a = NaN \/ b = NaN THEN NaN ELSE a + b

\* Math.round(n / d) for n >= 0: NaN for 0/0, else floor(n/d + 1/2)
RoundDiv(n, d) ==
    IF n = NaN \/ d = NaN \/ (n = 0 /\ d = 0) THEN NaN
    ELSE (2 * n + d) \div (2 * d)

\* str.match(/\d+/) succeeded
MatchDigits(s) == s \in {"50m", "75m"}

\* parseInt(str.match(/\d+/)[0])
ParseAccuracy(s) ==
    CASE s = "50m" -> 50
      [] s = "75m" -> 75
      [] OTHER -> NaN

\* parseInt(str)
ParseInt(s) ==
    CASE s = "0" -> 0
      [] s = "1" -> 1
      [] s = "2" -> 2
      [] OTHER -> NaN

----------------------------------------------------------------------------
(* Inputs *)

Act(dt, sn, la, ta) ==
    [DateTime |-> dt, ServiceNumber |-> sn, LocationAccuracy |-> la,
     TimeAccuracy |-> ta]

Att(ld, pn, lh, nm) ==
    [LoginDate |-> ld, PostName |-> pn, LateHours |-> lh, NoOfMiss |-> nm]

\* Rows a parsed Activity-Report.csv may hold.
ActivityRecord ==
    { Act("", "G1", "75m", "On Time"),
      Act("25/12/2023 14:30", "G2", "75m", "On Time"),
      Act("2024-01-01 23:00", "G1", "50m", "On Time"),
      Act("2024-01-02 00:00", "G1", "", "Late"),
      Act("2024-01-02 14:00", "", "75m", "On Time"),
      Act("2024-01-02 14:00", "G2", "75m", "On Time"),
      Act("2024-01-02 00:00", "G2", "N/A", "Late") }

\* Rows a parsed Post-basis-attendance.csv may hold.
AttendanceRecord ==
    { Att("", "Gate-1", "On-time", "1"),
      Att("25/12/2023", "Gate-1", "1:30", "2"),
      Att("2024-01-02 00:00", "Gate-1", "On-time", ""),
      Att("2024-01-02 14:00", "", "On-time", "1"),
      Att("2024-01-01 23:00", "Gate-2", "0:45", "n/a") }

SeqUpTo(S, n) == UNION { [1..k -> S] : k \in 0..n }

\* Values the DatePicker hands to setStartDate / setEndDate: no date, or
\* 2024-01-02 at midnight.
BoundValue == {Undefined, 24}

----------------------------------------------------------------------------
(* Record filter: the two Array.prototype.filter callbacks of the effect *)

KeepActivity(activity, start, end) ==
    IF activity.DateTime = "" THEN FALSE
    ELSE LET activityDate == ParseDate(activity.DateTime)
         IN  IF start # Undefined /\ Lt(activityDate, start) THEN FALSE
             ELSE IF end # Undefined /\ Gt(activityDate, end) THEN FALSE
             ELSE TRUE

KeepAttendance(record, start, end) ==
    IF record.LoginDate = "" THEN FALSE
    ELSE LET loginDate == ParseDate(record.LoginDate)
         IN  IF start # Undefined /\ Lt(loginDate, start) THEN FALSE
             ELSE IF end # Undefined /\ Gt(loginDate, end) THEN FALSE
             ELSE TRUE

FilterActivity(raw, start, end) ==
    SelectSeq(raw, LAMBDA activity : KeepActivity(activity, start, end))

FilterAttendance(raw, start, end) ==
    SelectSeq(raw, LAMBDA record : KeepAttendance(record, start, end))

----------------------------------------------------------------------------
(* processActivityData *)

InitialMetrics ==
    [totalGuards |-> 0, onTimeRate |-> 0, lateCheckIns |-> 0,
     earlyCheckouts |-> 0, locationErrors |-> 0, avgLocationAccuracy |-> 0,
     totalShifts |-> 0, missedScans |-> 0]

HourlyDataInit ==
    [i \in 1..24 |-> [hour |-> i - 1, count |-> 0, locationIssues |-> 0]]

ActivityAccInit ==
    [hourlyData |-> HourlyDataInit, uniqueGuards |-> {},
     totalLocationAccuracy |-> 0, locationReadings |-> 0,
     locationIssues |-> 0, guardMetrics |-> <<>>, threw |-> FALSE]

HasGuard(guardMetrics, id) ==
    \E i \in 1..Len(guardMetrics) : guardMetrics[i].id = id

GuardIndex(guardMetrics, id) ==
    CHOOSE i \in 1..Len(guardMetrics) : guardMetrics[i].id = id

NewGuard(activity) ==
    [id |-> activity.ServiceNumber, activities |-> 0, locationAccuracy |-> 0,
     locationIssues |-> 0, onTime |-> (activity.TimeAccuracy = "On Time"),
     missedScans |-> 0, lastActivity |-> activity.DateTime,
     status |-> "normal"]

\* TrackGuard recomputing guard.onTime from every row of the guard
TrackGuardOnTimeFromLatest(acc, activity) ==
    LET id == activity.ServiceNumber
        gm == IF HasGuard(acc.guardMetrics, id) THEN acc.guardMetrics
              ELSE Append(acc.guardMetrics, NewGuard(activity))
        i  == GuardIndex(gm, id)
    IN  [acc EXCEPT
           !.uniqueGuards = @ \cup {id},
           !.guardMetrics =
              [gm EXCEPT
                 ![i].activities = @ + 1,
                 ![i].onTime = (activity.TimeAccuracy = "On Time"),
                 ![i].lastActivity =
                    IF Gt(ParseDate(activity.DateTime), ParseDate(@))
                    THEN activity.DateTime ELSE @]]

\* TrackGuard with guard.activities++ done only when the guard is created
TrackGuardCountsFirstOnly(acc, activity) ==
    LET id == activity.ServiceNumber
        gm == IF HasGuard(acc.guardMetrics, id) THEN acc.guardMetrics
              ELSE Append(acc.guardMetrics,
                          [NewGuard(activity) EXCEPT !.activities = 1])
    IN  [acc EXCEPT !.uniqueGuards = @ \cup {id}, !.guardMetrics = gm]

\* "Track unique guards and their metrics", for a row with a service number
TrackGuard(acc, activity) ==
    LET id == activity.ServiceNumber
        gm == IF HasGuard(acc.guardMetrics, id) THEN acc.guardMetrics
              ELSE Append(acc.guardMetrics, NewGuard(activity))
        i  == GuardIndex(gm, id)
    IN  [acc EXCEPT
           !.uniqueGuards = @ \cup {id},
           !.guardMetrics =
              [gm EXCEPT
                 ![i].activities = @ + 1,
                 ![i].lastActivity =
                    IF Gt(ParseDate(activity.DateTime), ParseDate(@))
                    THEN activity.DateTime ELSE @]]

\* "Process location accuracy", for a row whose accuracy text has digits
TrackAccuracy(acc, activity, hour) ==
    LET accuracy == ParseAccuracy(activity.LocationAccuracy)
        counted  == [acc EXCEPT !.totalLocationAccuracy = @ + accuracy,
                                !.locationReadings = @ + 1]
    IN  IF accuracy > 50
        THEN LET issue == [counted EXCEPT
                             !.locationIssues = @ + 1,
                             !.hourlyData[hour + 1].locationIssues = @ + 1]
             IN  IF activity.ServiceNumber # ""
                 THEN LET i == GuardIndex(issue.guardMetrics,
                                          activity.ServiceNumber)
                      IN  [issue EXCEPT
                             !.guardMetrics[i].locationIssues = @ + 1,
                             !.guardMetrics[i].locationAccuracy = accuracy]
                 ELSE issue
        ELSE counted

\* The body of data.forEach(activity => ...).  hourlyData[NaN] is undefined,
\* so hourlyData[hour].count++ throws a TypeError for an Invalid Date.
ActivityRow(acc, activity) ==
    IF acc.threw THEN acc
    ELSE IF activity.DateTime = "" THEN acc
    ELSE LET date == ParseDate(activity.DateTime)
             hour == GetHours(date)
         IN  IF hour = NaN THEN [acc EXCEPT !.threw = TRUE]
             ELSE LET counted == [acc EXCEPT !.hourlyData[hour + 1].count = @ + 1]
                      guarded == IF activity.ServiceNumber # ""
                                 THEN TrackGuard(counted, activity)
                                 ELSE counted
                  IN  IF activity.LocationAccuracy # ""
                         /\ MatchDigits(activity.LocationAccuracy)
                      THEN TrackAccuracy(guarded, activity, hour)
                      ELSE guarded

RECURSIVE ForEachActivity(_, _, _)
ForEachActivity(acc, data, i) ==
    IF i > Len(data) THEN acc
    ELSE ForEachActivity(ActivityRow(acc, data[i]), data, i + 1)

GuardStatus(guard) ==
    IF guard.locationIssues > 0 \/ ~guard.onTime THEN "warning" ELSE "normal"

\* AvgLocationAccuracy with Math.floor in place of Math.round
AvgLocationAccuracyFloor(totalLocationAccuracy, locationReadings) ==
    IF locationReadings # 0
    THEN totalLocationAccuracy \div locationReadings
    ELSE 0

AvgLocationAccuracy(totalLocationAccuracy, locationReadings) ==
    IF locationReadings # 0
    THEN RoundDiv(totalLocationAccuracy, locationReadings)
    ELSE 0

\* What processActivityData(data) hands to setActivityData, setGuardStats
\* and setMetrics, or threw = TRUE when the loop throws before reaching them.
processActivityData(data) ==
    LET acc == ForEachActivity(ActivityAccInit, data, 1)
    IN  [threw |-> acc.threw,
         activityData |-> acc.hourlyData,
         guardStats |->
            [i \in 1..Len(acc.guardMetrics) |->
               [acc.guardMetrics[i] EXCEPT
                  !.status = GuardStatus(acc.guardMetrics[i])]],
         totalGuards |-> Cardinality(acc.uniqueGuards),
         locationErrors |-> acc.locationIssues,
         avgLocationAccuracy |->
            AvgLocationAccuracy(acc.totalLocationAccuracy,
                                acc.locationReadings)]

----------------------------------------------------------------------------
(* processAttendanceData *)

AttendanceAccInit ==
    [locationCoverage |-> <<>>, totalShifts |-> 0, onTime |-> 0, late |-> 0,
     missedScans |-> 0]

HasLocation(locationCoverage, name) ==
    \E i \in 1..Len(locationCoverage) : locationCoverage[i].name = name

LocationIndex(locationCoverage, name) ==
    CHOOSE i \in 1..Len(locationCoverage) : locationCoverage[i].name = name

NewLocation(location) ==
    [name |-> location, totalScans |-> 0, accuracyIssues |-> 0,
     avgAccuracy |-> 0, coverageRate |-> 0]

\* "Process location statistics"
TrackLocation(locationCoverage, record) ==
    LET location == record.PostName
        lc == IF HasLocation(locationCoverage, location) THEN locationCoverage
              ELSE Append(locationCoverage, NewLocation(location))
        i  == LocationIndex(lc, location)
    IN  [lc EXCEPT
           ![i].totalScans = @ + 1,
           ![i].accuracyIssues =
              IF record.LateHours # "On-time" THEN @ + 1 ELSE @]

\* The body of data.forEach(record => ...)
AttendanceRow(acc, record) ==
    IF record.PostName = "" THEN acc
    ELSE [acc EXCEPT
            !.totalShifts = @ + 1,
            !.onTime = IF record.LateHours = "On-time" THEN @ + 1 ELSE @,
            !.late = IF record.LateHours = "On-time" THEN @ ELSE @ + 1,
            !.missedScans =
               Plus(@, ParseInt(IF record.NoOfMiss # "" THEN record.NoOfMiss
                                ELSE "0")),
            !.locationCoverage = TrackLocation(@, record)]

RECURSIVE ForEachAttendance(_, _, _)
ForEachAttendance(acc, data, i) ==
    IF i > Len(data) THEN acc
    ELSE ForEachAttendance(AttendanceRow(acc, data[i]), data, i + 1)

\* CoverageRate taken as the share of issues instead of the share without
CoverageRateOfIssues(location) ==
    RoundDiv(location.accuracyIssues * 100, location.totalScans)

\* "Calculate coverage rates"
CoverageRate(location) ==
    RoundDiv((location.totalScans - location.accuracyIssues) * 100,
             location.totalScans)

OnTimeRate(onTime, totalShifts) == RoundDiv(onTime * 100, totalShifts)

\* What processAttendanceData(data) hands to setLocationStats and setMetrics.
processAttendanceData(data) ==
    LET acc == ForEachAttendance(AttendanceAccInit, data, 1)
    IN  [locationStats |->
            [i \in 1..Len(acc.locationCoverage) |->
               [acc.locationCoverage[i] EXCEPT
                  !.coverageRate = CoverageRate(acc.locationCoverage[i])]],
         totalShifts |-> acc.totalShifts,
         onTimeRate |-> OnTimeRate(acc.onTime, acc.totalShifts),
         lateCheckIns |-> acc.late,
         missedScans |-> acc.missedScans,
         earlyCheckouts |-> acc.late]

----------------------------------------------------------------------------
(* The component *)

Init ==
    /\ loading = TRUE
    /\ error = Null
    /\ metrics = InitialMetrics
    /\ guardStats = <<>>
    /\ activityData = <<>>
    /\ locationStats = <<>>
    /\ startDate = Undefined
    /\ endDate = Undefined
    /\ activityDataRaw = <<>>
    /\ attendanceDataRaw = <<>>
    /\ pc = "activity"
    /\ activityResults = <<>>
    /\ effectPending = TRUE
    /\ crashed = FALSE
    /\ filteredActivityData = <<>>
    /\ filteredAttendanceData = <<>>
    /\ activityPass = "none"
    /\ attendancePass = "none"
    /\ activeTab = "overview"
    /\ selectedHour = NullHour
    /\ selectedLocation = Null

\* LoadActivity storing the activity rows before the Attendance Report loads
LoadActivityStoresRaw(rows) ==
    /\ pc = "activity"
    /\ activityResults' = rows
    /\ activityDataRaw' = rows
    /\ pc' = "attendance"
    /\ effectPending' = TRUE
    /\ UNCHANGED <<loading, error, derived, startDate, endDate,
                   attendanceDataRaw, crashed,
                   filteredActivityData, filteredAttendanceData,
                   activityPass, attendancePass>>
    /\ UNCHANGED ui

\* fetchData up to the parsed Activity Report
LoadActivity(rows) ==
    /\ pc = "activity"
    /\ activityResults' = rows
    /\ pc' = "attendance"
    /\ UNCHANGED <<loading, error, derived, startDate, endDate,
                   activityDataRaw, attendanceDataRaw, effectPending, crashed,
                   filteredActivityData, filteredAttendanceData,
                   activityPass, attendancePass>>
    /\ UNCHANGED ui

\* fetchData: the Activity Report fails to load; catch and finally
LoadActivityFail ==
    /\ pc = "activity"
    /\ error' = "Failed to load activity data"
    /\ loading' = FALSE
    /\ pc' = "done"
    /\ UNCHANGED <<derived, startDate, endDate, activityDataRaw,
                   attendanceDataRaw, activityResults, effectPending, crashed,
                   filteredActivityData, filteredAttendanceData,
                   activityPass, attendancePass>>
    /\ UNCHANGED ui

\* fetchData from the parsed Attendance Report to the end: "Store raw data"
\* and finally
LoadAttendance(rows) ==
    /\ pc = "attendance"
    /\ activityDataRaw' = activityResults
    /\ attendanceDataRaw' = rows
    /\ loading' = FALSE
    /\ pc' = "done"
    /\ effectPending' = TRUE
    /\ UNCHANGED <<error, derived, startDate, endDate, activityResults,
                   crashed, filteredActivityData, filteredAttendanceData,
                   activityPass, attendancePass>>
    /\ UNCHANGED ui

\* fetchData: the Attendance Report fails to load; catch and finally
LoadAttendanceFail ==
    /\ pc = "attendance"
    /\ error' = "Failed to load attendance data"
    /\ loading' = FALSE
    /\ pc' = "done"
    /\ UNCHANGED <<derived, startDate, endDate, activityDataRaw,
                   attendanceDataRaw, activityResults, effectPending, crashed,
                   filteredActivityData, filteredAttendanceData,
                   activityPass, attendancePass>>
    /\ UNCHANGED ui

\* The dashboard (and with it the DatePicker) is on screen.
DashboardRendered == ~loading /\ error = Null /\ ~crashed

\* DatePicker onChange with dates = [start, end] (or null: both Undefined).
\* React runs the pending effect before it handles the next event.
DatePickerOnChange(start, end) ==
    /\ DashboardRendered
    /\ ~effectPending
    /\ startDate' = start
    /\ endDate' = end
    /\ effectPending' = (start # Undefined \/ end # Undefined
                          \/ startDate # Undefined \/ endDate # Undefined)
    /\ UNCHANGED <<loading, error, derived, activityDataRaw,
                   attendanceDataRaw, pc, activityResults, crashed,
                   filteredActivityData, filteredAttendanceData,
                   activityPass, attendancePass>>
    /\ UNCHANGED ui

\* setMetrics(prev => ({...prev, ...})) at the end of processActivityData
MergeActivityMetrics(prev, act) ==
    [prev EXCEPT
       !.totalGuards = act.totalGuards,
       !.locationErrors = act.locationErrors,
       !.avgLocationAccuracy = act.avgLocationAccuracy]

\* MergeAttendanceMetrics spreading the render's metrics instead of prev
MergeAttendanceMetricsStale(prev, att) ==
    [metrics EXCEPT
       !.totalShifts = att.totalShifts,
       !.onTimeRate = att.onTimeRate,
       !.lateCheckIns = att.lateCheckIns,
       !.missedScans = att.missedScans,
       !.earlyCheckouts = att.earlyCheckouts]

\* setMetrics(prev => ({...prev, ...})) at the end of processAttendanceData
MergeAttendanceMetrics(prev, att) ==
    [prev EXCEPT
       !.totalShifts = att.totalShifts,
       !.onTimeRate = att.onTimeRate,
       !.lateCheckIns = att.lateCheckIns,
       !.missedScans = att.missedScans,
       !.earlyCheckouts = att.earlyCheckouts]

\* useEffect(..., [activityDataRaw, attendanceDataRaw, startDate, endDate]).
\* An exception leaving the effect unmounts the component tree.
ProcessEffect ==
    /\ effectPending
    /\ ~crashed
    /\ effectPending' = FALSE
    /\ IF Len(activityDataRaw) = 0 \/ Len(attendanceDataRaw) = 0
       THEN UNCHANGED <<derived, crashed, filteredActivityData,
                        filteredAttendanceData, activityPass, attendancePass>>
       ELSE LET fa == FilterActivity(activityDataRaw, startDate, endDate)
                fb == FilterAttendance(attendanceDataRaw, startDate, endDate)
                act == processActivityData(fa)
                att == processAttendanceData(fb)
            IN  /\ filteredActivityData' = fa
                /\ filteredAttendanceData' = fb
                /\ IF act.threw
                   THEN /\ activityPass' = "threw"
                        /\ crashed' = TRUE
                        /\ UNCHANGED <<derived, attendancePass>>
                   ELSE /\ activityPass' = "done"
                        /\ attendancePass' = "done"
                        /\ activityData' = act.activityData
                        /\ guardStats' = act.guardStats
                        /\ locationStats' = att.locationStats
                        /\ metrics' = MergeAttendanceMetrics(
                                        MergeActivityMetrics(metrics, act), att)
                        /\ UNCHANGED crashed
    /\ UNCHANGED <<loading, error, startDate, endDate, activityDataRaw,
                   attendanceDataRaw, pc, activityResults>>
    /\ UNCHANGED ui

Next ==
    \/ \E rows \in SeqUpTo(ActivityRecord, MaxActivity) : LoadActivity(rows)
    \/ LoadActivityFail
    \/ \E rows \in SeqUpTo(AttendanceRecord, MaxAttendance) : LoadAttendance(rows)
    \/ LoadAttendanceFail
    \/ \E start \in BoundValue, end \in BoundValue :
          DatePickerOnChange(start, end)
    \/ ProcessEffect

Spec == Init /\ [][Next]_vars

----------------------------------------------------------------------------
(* Tabs and drill-down *)

\* The hours of the timeline that get clicked
ClickedHour == {0, 14, 23}

\* renderDrillDownContent(): the card it returns
DrillDownContent ==
    IF selectedHour # NullHour THEN "hourDetail"
    ELSE IF selectedLocation # Null THEN "locationDetail"
    ELSE "none"

\* "Conditional Content Based on Active Tab": what is on screen
TabContent ==
    IF activeTab = "overview"
    THEN IF selectedHour # NullHour \/ selectedLocation # Null
         THEN DrillDownContent ELSE "charts"
    ELSE IF activeTab = "guards" THEN "guardCards"
    ELSE IF selectedLocation # Null THEN DrillDownContent
         ELSE "locationTable"

\* activitiesInHour of the hour drill-down
ActivitiesInHour(hour) ==
    SelectSeq(activityDataRaw,
              LAMBDA activity : GetHours(ParseDate(activity.DateTime)) = hour)

\* A user event is handled: the dashboard is on screen and React has run
\* the pending effect.
Interactive == DashboardRendered /\ ~effectPending

\* Tab button onClick
SetActiveTab(id) ==
    /\ Interactive
    /\ activeTab' = id
    /\ UNCHANGED <<loading, error, derived, startDate, endDate,
                   activityDataRaw, attendanceDataRaw, pc, activityResults,
                   effectPending, crashed, filteredActivityData,
                   filteredAttendanceData, activityPass, attendancePass,
                   selectedHour, selectedLocation>>

\* ActivityTimeline: LineChart onClick on the point of an hour
TimelineOnClick(hour) ==
    /\ Interactive
    /\ TabContent = "charts"
    /\ \E i \in 1..Len(activityData) : activityData[i].hour = hour
    /\ selectedHour' = hour
    /\ UNCHANGED <<loading, error, derived, startDate, endDate,
                   activityDataRaw, attendanceDataRaw, pc, activityResults,
                   effectPending, crashed, filteredActivityData,
                   filteredAttendanceData, activityPass, attendancePass,
                   activeTab, selectedLocation>>

\* LocationStatsChart: BarChart onClick on the bar of a location
LocationChartOnClick(name) ==
    /\ Interactive
    /\ TabContent = "charts"
    /\ \E i \in 1..Len(locationStats) : locationStats[i].name = name
    /\ selectedLocation' = name
    /\ UNCHANGED <<loading, error, derived, startDate, endDate,
                   activityDataRaw, attendanceDataRaw, pc, activityResults,
                   effectPending, crashed, filteredActivityData,
                   filteredAttendanceData, activityPass, attendancePass,
                   activeTab, selectedHour>>

\* Location Coverage table: row onClick
LocationRowOnClick(name) ==
    /\ Interactive
    /\ TabContent = "locationTable"
    /\ \E i \in 1..Len(locationStats) : locationStats[i].name = name
    /\ selectedLocation' = name
    /\ UNCHANGED <<loading, error, derived, startDate, endDate,
                   activityDataRaw, attendanceDataRaw, pc, activityResults,
                   effectPending, crashed, filteredActivityData,
                   filteredAttendanceData, activityPass, attendancePass,
                   activeTab, selectedHour>>

\* "Back to Activity Timeline"
BackToTimeline ==
    /\ Interactive
    /\ TabContent = "hourDetail"
    /\ selectedHour' = NullHour
    /\ UNCHANGED <<loading, error, derived, startDate, endDate,
                   activityDataRaw, attendanceDataRaw, pc, activityResults,
                   effectPending, crashed, filteredActivityData,
                   filteredAttendanceData, activityPass, attendancePass,
                   activeTab, selectedLocation>>

\* "Back to Location Performance"
BackToLocations ==
    /\ Interactive
    /\ TabContent = "locationDetail"
    /\ selectedLocation' = Null
    /\ UNCHANGED <<loading, error, derived, startDate, endDate,
                   activityDataRaw, attendanceDataRaw, pc, activityResults,
                   effectPending, crashed, filteredActivityData,
                   filteredAttendanceData, activityPass, attendancePass,
                   activeTab, selectedHour>>

\* The component with its tabs and drill-down
NextUI ==
    \/ \E rows \in SeqUpTo(ActivityRecord, MaxActivity) : LoadActivity(rows)
    \/ LoadActivityFail
    \/ \E rows \in SeqUpTo(AttendanceRecord, MaxAttendance) : LoadAttendance(rows)
    \/ LoadAttendanceFail
    \/ \E start \in BoundValue, end \in BoundValue :
          DatePickerOnChange(start, end)
    \/ ProcessEffect
    \/ \E id \in {"overview", "guards", "locations"} : SetActiveTab(id)
    \/ \E hour \in ClickedHour : TimelineOnClick(hour)
    \/ \E name \in {"Gate-1", "Gate-2"} : LocationChartOnClick(name)
    \/ \E name \in {"Gate-1", "Gate-2"} : LocationRowOnClick(name)
    \/ BackToTimeline
    \/ BackToLocations

SpecUI == Init /\ [][NextUI]_vars

----------------------------------------------------------------------------
(* processActivityData on its own, applied to any input *)

InitActivity ==
    /\ loading = FALSE
    /\ error = Null
    /\ metrics = InitialMetrics
    /\ guardStats = <<>>
    /\ activityData = <<>>
    /\ locationStats = <<>>
    /\ startDate = Undefined
    /\ endDate = Undefined
    /\ activityDataRaw = <<>>
    /\ attendanceDataRaw = <<>>
    /\ pc = "done"
    /\ activityResults = <<>>
    /\ effectPending = FALSE
    /\ crashed = FALSE
    /\ filteredActivityData \in SeqUpTo(ActivityRecord, MaxActivity)
    /\ filteredAttendanceData = <<>>
    /\ activityPass = "none"
    /\ attendancePass = "none"
    /\ activeTab = "overview"
    /\ selectedHour = NullHour
    /\ selectedLocation = Null

\* processActivityData(filteredActivityData)
CallProcessActivityData ==
    /\ activityPass = "none"
    /\ LET act == processActivityData(filteredActivityData)
       IN  IF act.threw
           THEN /\ activityPass' = "threw"
                /\ crashed' = TRUE
                /\ UNCHANGED derived
           ELSE /\ activityPass' = "done"
                /\ activityData' = act.activityData
                /\ guardStats' = act.guardStats
                /\ metrics' = MergeActivityMetrics(metrics, act)
                /\ UNCHANGED <<crashed, locationStats>>
    /\ UNCHANGED <<loading, error, startDate, endDate, activityDataRaw,
                   attendanceDataRaw, pc, activityResults, effectPending,
                   filteredActivityData, filteredAttendanceData,
                   attendancePass>>
    /\ UNCHANGED ui

NextActivity == CallProcessActivityData

SpecActivity == InitActivity /\ [][NextActivity]_vars

----------------------------------------------------------------------------
TypeOK ==
    /\ loading \in BOOLEAN
    /\ pc \in {"activity", "attendance", "done"}
    /\ activityPass \in {"none", "done", "threw"}
    /\ attendancePass \in {"none", "done"}
    /\ startDate \in BoundValue /\ endDate \in BoundValue

----------------------------------------------------------------------------
(* Vocabulary of the properties *)

\* The date string parses to a valid date.
Parseable(s) == ParseDate(s) # NaN

\* start <= d <= end, an absent bound restricting nothing
InRange(s, start, end) ==
    /\ Parseable(s)
    /\ start = Undefined \/ start <= ParseDate(s)
    /\ end = Undefined \/ ParseDate(s) <= end

\* Indices of the rows of data that satisfy P
Rows(data, P(_)) == { i \in 1..Len(data) : P(data[i]) }

RECURSIVE SumOver(_, _)
SumOver(f, S) ==
    IF S = {} THEN 0
    ELSE LET x == CHOOSE y \in S : TRUE IN f[x] + SumOver(f, S \ {x})

\* r = Math.round(n / d) for n >= 0 and d > 0
IsRounded(r, n, d) == 2 * r * d <= 2 * n + d /\ 2 * n + d < 2 * (r + 1) * d

\* A date-range pass has run with the bounds now in force.
PassCurrent == activityPass # "none" /\ ~effectPending

----------------------------------------------------------------------------
(* C1: the date-range filter keeps, in original order, exactly the rows    *)
(* whose date d satisfies start <= d <= end, both bounds inclusive and an  *)
(* absent bound unrestricting, for activity rows and for attendance rows.  *)
C1_FilterKeepsExactlyInRange ==
    PassCurrent =>
       /\ filteredActivityData =
             SelectSeq(activityDataRaw,
                       LAMBDA a : InRange(a.DateTime, startDate, endDate))
       /\ filteredAttendanceData =
             SelectSeq(attendanceDataRaw,
                       LAMBDA r : InRange(r.LoginDate, startDate, endDate))

(* C2: for every setting of the bounds, a record whose date field is empty *)
(* or does not parse never is in the filtered set handed to the          *)
(* aggregators.                                                            *)
C2_UnparseableExcluded ==
    /\ \A i \in 1..Len(filteredActivityData) :
          Parseable(filteredActivityData[i].DateTime)
    /\ \A i \in 1..Len(filteredAttendanceData) :
          Parseable(filteredAttendanceData[i].LoginDate)

(* C3: every activity pass completes, and the counts of the 24 buckets sum *)
(* to the number of input rows with a parseable timestamp.                 *)
C3_PassCompletesAndCountsParseable ==
    activityPass # "none" =>
       /\ activityPass = "done"
       /\ Len(activityData) = 24
       /\ SumOver([i \in 1..24 |-> activityData[i].count], 1..24)
             = Cardinality(Rows(filteredActivityData,
                                LAMBDA a : Parseable(a.DateTime)))

Readings == Rows(filteredActivityData,
                 LAMBDA a : /\ Parseable(a.DateTime)
                            /\ ParseAccuracy(a.LocationAccuracy) # NaN)

ReadingsOver50 == { i \in Readings :
                      ParseAccuracy(filteredActivityData[i].LocationAccuracy) > 50 }

AccuracyOf == [i \in 1..Len(filteredActivityData) |->
                 ParseAccuracy(filteredActivityData[i].LocationAccuracy)]

C6_OnTimeRateFallback ==
    (attendancePass = "done" /\ metrics.totalShifts = 0) =>
       metrics.onTimeRate = 0

\* What one pass over the raw records with bounds start, end publishes
PassActivity(start, end) ==
    processActivityData(FilterActivity(activityDataRaw, start, end))

PassAttendance(start, end) ==
    processAttendanceData(FilterAttendance(attendanceDataRaw, start, end))

PublishedBy(start, end) ==
    LET act == PassActivity(start, end)
        att == PassAttendance(start, end)
    IN  /\ ~act.threw
        /\ activityData = act.activityData
        /\ guardStats = act.guardStats
        /\ locationStats = att.locationStats
        /\ metrics =
              [totalGuards |-> act.totalGuards,
               locationErrors |-> act.locationErrors,
               avgLocationAccuracy |-> act.avgLocationAccuracy,
               totalShifts |-> att.totalShifts,
               onTimeRate |-> att.onTimeRate,
               lateCheckIns |-> att.lateCheckIns,
               missedScans |-> att.missedScans,
               earlyCheckouts |-> att.earlyCheckouts]

DerivedInitial ==
    /\ metrics = InitialMetrics
    /\ guardStats = <<>>
    /\ activityData = <<>>
    /\ locationStats = <<>>

(* C7: once the raw records are loaded and the effect has run for the      *)
(* latest change of raw records or bounds, the published metrics, buckets, *)
(* guard list and location list are the aggregation of the current inputs, *)
(* whatever the inputs are (an empty raw dataset included).                *)
C7_DerivedFollowInputs ==
    (pc = "done" /\ error = Null /\ ~effectPending) =>
       PublishedBy(startDate, endDate)

(* C8: if loading either dataset fails, the component is in the error      *)
(* state with loading false, no raw dataset is stored, no aggregation pass *)
(* has run and the derived values are the initial ones.                    *)
C8_LoadFailureExposesNothing ==
    error # Null =>
       /\ ~loading
       /\ pc = "done"
       /\ activityDataRaw = <<>>
       /\ attendanceDataRaw = <<>>
       /\ activityPass = "none"
       /\ attendancePass = "none"
       /\ DerivedInitial

C8_Witness ==
    /\ error = "Failed to load attendance data"
    /\ Len(activityResults) > 0
    /\ ~effectPending

(* C9: whenever the component is on screen, metrics, buckets, guard list   *)
(* and location list are either all initial or all published by one pass   *)
(* over the raw records with one pair of bounds, which is the current pair *)
(* once the effect has run.                                                *)
C9_OneConsistentSnapshot ==
    ~crashed =>
       \/ activityPass = "none" /\ attendancePass = "none" /\ DerivedInitial
       \/ /\ activityPass = "done" /\ attendancePass = "done"
          /\ IF effectPending
             THEN \E start \in BoundValue, end \in BoundValue :
                     PublishedBy(start, end)
             ELSE PublishedBy(startDate, endDate)

C9_Witness ==
    /\ ~crashed
    /\ effectPending
    /\ activityPass = "done"
    /\ startDate = 24
    /\ ~PublishedBy(startDate, endDate)

(* C10: after an attendance pass there is one LocationStat per non-empty   *)
(* post name of the input; its totalScans is the number of rows with that  *)
(* post name, its accuracyIssues the number of those whose Late Hours is   *)
(* not "On-time", and coverageRate = round(100 * (totalScans -             *)
(* accuracyIssues) / totalScans): 0 when all are issues, 100 when none is. *)
C10_LocationStats ==
    attendancePass = "done" =>
       LET data == filteredAttendanceData
           At(name) == Rows(data, LAMBDA r : r.PostName = name)
           LateAt(name) == Rows(data, LAMBDA r : /\ r.PostName = name
                                                 /\ r.LateHours # "On-time")
       IN  /\ { locationStats[i].name : i \in 1..Len(locationStats) }
                 = { data[i].PostName : i \in 1..Len(data) } \ {""}
           /\ \A i, j \in 1..Len(locationStats) :
                 locationStats[i].name = locationStats[j].name => i = j
           /\ \A i \in 1..Len(locationStats) :
                 LET l == locationStats[i]
                 IN  /\ l.totalScans = Cardinality(At(l.name))
                     /\ l.accuracyIssues = Cardinality(LateAt(l.name))
                     /\ IsRounded(l.coverageRate,
                                  100 * (l.totalScans - l.accuracyIssues),
                                  l.totalScans)
                     /\ l.totalScans = l.accuracyIssues => l.coverageRate = 0
                     /\ l.accuracyIssues = 0 => l.coverageRate = 100

C10_Witness ==
    /\ attendancePass = "done"
    /\ \E i \in 1..Len(locationStats) :
          /\ locationStats[i].name = "Gate-1"
          /\ locationStats[i].totalScans = 2
          /\ locationStats[i].accuracyIssues = 1
          /\ locationStats[i].coverageRate = 50

\* Indices of the rows of the last activity pass that count for guard id
GuardRows(id) ==
    Rows(filteredActivityData,
         LAMBDA a : Parseable(a.DateTime) /\ a.ServiceNumber = id)

\* The first of them
FirstGuardRow(id) ==
    CHOOSE i \in GuardRows(id) : \A j \in GuardRows(id) : i <= j

(* C11: after an activity pass a guard's status is "warning" exactly when  *)
(* one of the guard's rows has a parsed location accuracy above 50 or the  *)
(* first row seen for the guard has a Time Accuracy other than "On Time",  *)
(* and "normal" otherwise; later rows do not change the on-time flag.      *)
C11_GuardStatus ==
    activityPass = "done" =>
       \A g \in 1..Len(guardStats) :
          LET id == guardStats[g].id
              issue == \E i \in GuardRows(id) :
                          ParseAccuracy(filteredActivityData[i].LocationAccuracy) > 50
              first == filteredActivityData[FirstGuardRow(id)]
          IN  /\ guardStats[g].onTime = (first.TimeAccuracy = "On Time")
              /\ guardStats[g].status \in {"warning", "normal"}
              /\ guardStats[g].status = "warning"
                    <=> (issue \/ first.TimeAccuracy # "On Time")

C11_Witness ==
    /\ activityPass = "done"
    /\ Len(filteredActivityData) = 2
    /\ filteredActivityData[1].ServiceNumber = "G1"
    /\ filteredActivityData[1].TimeAccuracy = "On Time"
    /\ filteredActivityData[2].ServiceNumber = "G1"
    /\ filteredActivityData[2].TimeAccuracy = "Late"
    /\ Len(guardStats) = 1
    /\ guardStats[1].status = "normal"

\* parseInt of a miss-count field that parses, 0 for any other field
MissCount(s) == IF ParseInt(s) # NaN THEN ParseInt(s) ELSE 0

(* C12: the published missedScans is a non-negative integer, the sum of    *)
(* the parseable miss counts of the rows with a non-empty post name, an    *)
(* empty or unparseable field contributing 0.                              *)
C12_MissedScansSum ==
    attendancePass = "done" =>
       /\ metrics.missedScans # NaN
       /\ metrics.missedScans >= 0
       /\ metrics.missedScans =
             SumOver([i \in 1..Len(filteredAttendanceData) |->
                        MissCount(filteredAttendanceData[i].NoOfMiss)],
                     Rows(filteredAttendanceData,
                          LAMBDA r : r.PostName # ""))

(* C13: for any date bounds and any selected hour h, the rows the hour     *)
(* drill-down lists are the rows counted in bucket h of the published      *)
(* histogram: their number is activityData[h].count.                       *)
C13_DrillDownMatchesBucket ==
    (Interactive /\ TabContent = "hourDetail" /\ Len(activityData) = 24) =>
       Len(ActivitiesInHour(selectedHour)) = activityData[selectedHour + 1].count

(* C14: whenever the Locations tab is active and selectedLocation is not   *)
(* null, the drill-down on screen is the detail view of selectedLocation.  *)
C14_LocationsTabShowsLocation ==
    (DashboardRendered /\ activeTab = "locations" /\ selectedLocation # Null) =>
       TabContent = "locationDetail"

====
